---- MODULE Spec2Model ----
(***************************************************************************)
(* A model of the roborock data pipeline: the cleaning monitor             *)
(* (pipeline.py, CleaningMonitor), the persisted cursor store              *)
(* (src/state_manager.py, StateManager), the count-based sync              *)
(* (pipeline.py, smart_sync) and the record-level sync (pipeline.py,       *)
(* sync_new_records).                                                      *)
(***************************************************************************)
EXTENDS Integers, Sequences, FiniteSets, TLC

(***************************************************************************)
(* Bounds of the model.                                                    *)
(***************************************************************************)
\* largest lifetime cleaning count a device reports
MaxCount == 5
\* number of cursor writes (the clock read by datetime.now()) in one behaviour
MaxClock == 2

\* the names devices report (device.name)
DeviceNames == {"q8", "s7"}
\* lifetime totals a summary may carry
Areas == {12}
Times == {30}
Counts == 0..MaxCount

\* successful polls of the monitor in one behaviour
MaxPolls == 4
\* largest lifetime cleaning count a summary reports to smart_sync
MaxSyncCount == 2
\* cleaning records a device accumulates in one behaviour
MaxRecords == 7

VARIABLES
    state,        \* StateManager.state: the in-memory cursor table
    state_file,   \* the persistence file config/last_state.json
    clock,        \* datetime.now(), advanced at every cursor write
    last,         \* the last operation performed and what it returned
    devices,                 \* collector.devices: the discovered devices, by name
    sheets_client,           \* whether a GoogleSheetsClient is configured
    previous_states,         \* CleaningMonitor.previous_states
    cleaning_start_battery,  \* CleaningMonitor.cleaning_start_battery
    mon_pos,                 \* monitor_loop: index of the next device of the cycle
    sink,                    \* the rows the spreadsheet has received, in order
    displayed,               \* the records display_last_cleaning has printed
    polls,                   \* history: the snapshots fetched, per device name
    events,                  \* history: the _log_cleaning_session calls
    script,                  \* the classes the environment plays, <<>> when free
    driver,                  \* the scheduling loop the process runs, or "none"
    peer_state,              \* StateManager.state of a second process on the file
    sync_mode,               \* the sync that runs: "off", "smart" or "record"
    sync_pos,                \* index of the next device of the running sync
    sheets_failed,           \* smart_sync: sheets_failed
    sync_last,               \* history: what the last device step of a sync did
    history                  \* the cleaning records each device holds (their number)

smVars == <<state, state_file, clock, last>>
monVars == <<devices, sheets_client, previous_states, cleaning_start_battery,
             mon_pos, sink, displayed, polls, events, script>>
syncVars == <<driver, peer_state, sync_mode, sync_pos, sheets_failed, sync_last, history>>
vars == <<state, state_file, clock, last, devices, sheets_client,
          previous_states, cleaning_start_battery, mon_pos, sink, displayed,
          polls, events, script, driver, peer_state, sync_mode, sync_pos,
          sheets_failed, sync_last, history>>

(***************************************************************************)
(* The persistence file.  json.dump writes the table as a document, a set  *)
(* of (key, members) pairs, each member a (field, value) pair; json.load   *)
(* rebuilds the table from the document.                                   *)
(***************************************************************************)
EmptyTable == [d \in {} |-> 0]

json_dump(tbl) ==
    { <<d, { <<f, tbl[d][f]>> : f \in DOMAIN tbl[d] }>> : d \in DOMAIN tbl }

json_load_counts(doc) ==
    [d \in { p[1] : p \in doc } |->
        LET members == (CHOOSE p \in doc : p[1] = d)[2]
        IN  [f \in { m[1] : m \in members } \cap {"last_clean_count"} |->
                (CHOOSE m \in members : m[1] = f)[2]]]

json_load(doc) ==
    [d \in { p[1] : p \in doc } |->
        LET members == (CHOOSE p \in doc : p[1] = d)[2]
        IN  [f \in { m[1] : m \in members } |->
                (CHOOSE m \in members : m[1] = f)[2]]]

AbsentFile == [kind |-> "absent", doc |-> {}]
CorruptFile == [kind |-> "corrupt", doc |-> {}]
WrittenFile(tbl) == [kind |-> "json", doc |-> json_dump(tbl)]

_load_unguarded(f) ==
    CASE f.kind = "json" -> json_load(f.doc)
      [] f.kind = "absent" -> EmptyTable
      [] OTHER -> [error |-> "JSONDecodeError"]

_load_fresh(f) == EmptyTable

\* StateManager._load: an absent or unparsable file gives the empty table
_load(f) == IF f.kind = "json" THEN json_load(f.doc) ELSE EmptyTable

_save_merging(f, tbl, outcome) ==
    CASE outcome = "ok" ->
            LET old == _load(f)
            IN  WrittenFile([d \in DOMAIN old \cup DOMAIN tbl |->
                                IF d \in DOMAIN tbl THEN tbl[d] ELSE old[d]])
      [] outcome = "unwritten" -> f
      [] OTHER -> CorruptFile

\* StateManager._save: mkdir, open(..., 'w') (which truncates), json.dump.
\* The write succeeds ("ok"), fails before the file is opened ("unwritten":
\* the file keeps its content) or fails after open() truncated it ("torn":
\* the file holds a partial document that does not parse).
SaveOutcomes == {"ok", "unwritten", "torn"}

_save(f, tbl, outcome) ==
    CASE outcome = "ok" -> WrittenFile(tbl)
      [] outcome = "unwritten" -> f
      [] OTHER -> CorruptFile

(***************************************************************************)
(* StateManager                                                            *)
(***************************************************************************)
get_device_state(tbl, d) == IF d \in DOMAIN tbl THEN tbl[d] ELSE EmptyTable

get_last_clean_count(tbl, d) ==
    LET device_state == get_device_state(tbl, d)
    IN  IF "last_clean_count" \in DOMAIN device_state
        THEN device_state["last_clean_count"]
        ELSE 0

update_device_state_keep(tbl, d, clean_count, total_area, total_time, now) ==
    [x \in DOMAIN tbl \cup {d} |->
        IF x \in DOMAIN tbl
        THEN tbl[x]
        ELSE [last_clean_count |-> clean_count,
              last_total_area |-> total_area,
              last_total_time |-> total_time,
              last_updated |-> now]]

update_device_state_merge(tbl, d, clean_count, total_area, total_time, now) ==
    LET old == IF d \in DOMAIN tbl THEN tbl[d] ELSE EmptyTable
        new == [last_clean_count |-> clean_count,
                last_total_area |-> total_area,
                last_total_time |-> total_time,
                last_updated |-> now]
    IN  [x \in DOMAIN tbl \cup {d} |->
            IF x = d
            THEN [f \in DOMAIN old \cup DOMAIN new |->
                     IF f \in DOMAIN new THEN new[f] ELSE old[f]]
            ELSE tbl[x]]

update_device_state(tbl, d, clean_count, total_area, total_time, now) ==
    [x \in DOMAIN tbl \cup {d} |->
        IF x = d
        THEN [last_clean_count |-> clean_count,
              last_total_area |-> total_area,
              last_total_time |-> total_time,
              last_updated |-> now]
        ELSE tbl[x]]

has_new_cleaning_ne(tbl, d, current_count) ==
    current_count # get_last_clean_count(tbl, d)

has_new_cleaning_ge(tbl, d, current_count) ==
    current_count >= get_last_clean_count(tbl, d)

has_new_cleaning(tbl, d, current_count) ==
    current_count > get_last_clean_count(tbl, d)

get_new_cleaning_count_raw(tbl, d, current_count) ==
    current_count - get_last_clean_count(tbl, d)

get_new_cleaning_count(tbl, d, current_count) ==
    LET diff == current_count - get_last_clean_count(tbl, d)
    IN  IF diff > 0 THEN diff ELSE 0

AfterDeviceSkipping(pos) == pos + 2

\* "for device in collector.devices" with the body awaited: the loop comes
\* to the next device when the processing of the current one has returned
AfterDevice(pos) == pos + 1

\* no device step of a sync has run yet
NoStep == [op |-> "none", d |-> "", n |-> 0, stored |-> 0, new_count |-> 0,
           attempted |-> 0, appended |-> 0, outcome |-> "none",
           wrote |-> FALSE, raised |-> FALSE, last_timestamp |-> <<>>, records |-> <<>>, new_records |-> <<>>]

\* no sync is running
SyncUnused ==
    /\ driver = "none"
    /\ peer_state = EmptyTable
    /\ sync_mode = "off"
    /\ sync_pos = 1
    /\ sheets_failed = FALSE
    /\ sync_last = NoStep
    /\ history = [d \in {"q8", "s7"} |-> 0]

\* nothing has been asked of the StateManager yet
NoOp == [op |-> "none", d |-> "", n |-> 0, a |-> 0, t |-> 0, outcome |-> "none",
         has_new |-> FALSE, new_count |-> 0]

(***************************************************************************)
(* RoborockDataCollector: snapshots and their classification.              *)
(***************************************************************************)
\* Optional values: <<>> is None, <<v>> is the value v.
None == <<>>
Some(v) == <<v>>

\* the elements of a sequence
Range(seq) == { seq[i] : i \in 1..Len(seq) }

\* str.lower() on the labels of the model
lower(s) ==
    CASE s = "Cleaning" -> "cleaning"
      [] s = "CLEANING" -> "cleaning"
      [] s = "SegmentCleaning" -> "segmentcleaning"
      [] s = "Charger" -> "charger"
      [] s = "Charging" -> "charging"
      [] s = "Idle" -> "idle"
      [] s = "Paused" -> "paused"
      [] s = "Returning_Home" -> "returning_home"
      [] OTHER -> s

cleaning_states == {"cleaning", "segment_cleaning", "zone_cleaning",
                    "spot_cleaning", "Cleaning", "SegmentCleaning"}
idle_states == {"charger", "idle", "charging", "paused", "Charger", "Idle"}

is_cleaning_exact(status) == status.state \in cleaning_states

is_cleaning(status) ==
    lower(status.state) \in { lower(x) : x \in cleaning_states }

is_idle(status) ==
    lower(status.state) \in { lower(x) : x \in idle_states }

\* the class of a snapshot: "active", "idle" or "unclassified"
Classify(status) ==
    IF is_cleaning(status) THEN "active"
    ELSE IF is_idle(status) THEN "idle"
    ELSE "unclassified"

\* the state labels the device reports to the monitor
Labels == {"cleaning", "Charging", "returning_home"}

\* state labels in the spellings a status trait may report them
RawLabels ==
    {"cleaning", "Cleaning", "CLEANING", "segment_cleaning", "SegmentCleaning",
     "segmentcleaning", "zone_cleaning", "spot_cleaning",
     "charger", "Charger", "idle", "Idle", "charging", "Charging",
     "paused", "Paused", "returning_home", "Returning_Home", "error"}

\* what the status trait reads besides the state
Readings ==
    { [battery |-> 100, clean_time |-> 0, clean_area |-> 0,
       fan_power |-> Some("balanced"), water_box_status |-> Some(1),
       mop_mode |-> None, error_code |-> Some(0)],
      [battery |-> 64, clean_time |-> 25, clean_area |-> 18,
       fan_power |-> Some("max"), water_box_status |-> Some(0),
       mop_mode |-> Some("deep"), error_code |-> Some(5)] }

\* get_device_status: the DeviceStatus of a successful fetch (its timestamp,
\* which nothing reads, is left out)
DeviceStatus(name, label, r) ==
    [device_name |-> name, state |-> label, battery |-> r.battery,
     fan_power |-> r.fan_power, water_box_status |-> r.water_box_status,
     mop_mode |-> r.mop_mode, error_code |-> r.error_code,
     clean_time |-> r.clean_time, clean_area |-> r.clean_area]

\* str() of the water box status
str(n) == IF n = 0 THEN "0" ELSE IF n = 1 THEN "1" ELSE "n"

\* Python truth of an Optional[int]: None and 0 are false
Truthy(opt) == opt # None /\ opt[1] # 0

(***************************************************************************)
(* CleaningMonitor                                                         *)
(***************************************************************************)
\* dict with key k set to v
DictSet(dict, k, v) == [x \in DOMAIN dict \cup {k} |-> IF x = k THEN v ELSE dict[x]]
\* dict without key k
DictPop(dict, k) == [x \in DOMAIN dict \ {k} |-> dict[x]]
\* dict.get(k, None)
DictGet(dict, k) == IF k \in DOMAIN dict THEN Some(dict[k]) ELSE None

CleaningRecordFromPrevious(final_status, battery_start) ==
    LET was == previous_states[final_status.device_name]
    IN  [device_name |-> final_status.device_name,
         clean_time_minutes |-> was.clean_time,
         clean_area_sqm |-> was.clean_area,
         battery_start |-> battery_start,
         battery_end |-> was.battery,
         fan_power |-> was.fan_power,
         water_level |-> IF Truthy(was.water_box_status)
                         THEN Some(str(was.water_box_status[1]))
                         ELSE None,
         mop_mode |-> was.mop_mode,
         state |-> "completed",
         error_code |-> was.error_code]

\* _log_cleaning_session: the CleaningRecord built from the final status
CleaningRecord(final_status, battery_start) ==
    [device_name |-> final_status.device_name,
     clean_time_minutes |-> final_status.clean_time,
     clean_area_sqm |-> final_status.clean_area,
     battery_start |-> battery_start,
     battery_end |-> final_status.battery,
     fan_power |-> final_status.fan_power,
     water_level |-> IF Truthy(final_status.water_box_status)
                     THEN Some(str(final_status.water_box_status[1]))
                     ELSE None,
     mop_mode |-> final_status.mop_mode,
     state |-> "completed",
     error_code |-> final_status.error_code]

StartBatteryOverwritten(status) ==
    IF is_cleaning(status)
    THEN DictSet(cleaning_start_battery, status.device_name, status.battery)
    ELSE cleaning_start_battery

StartBatteryOnTransition(status) ==
    IF /\ is_cleaning(status)
       /\ status.device_name \notin DOMAIN cleaning_start_battery
       /\ status.device_name \in DOMAIN previous_states
       /\ ~is_cleaning(previous_states[status.device_name])
    THEN DictSet(cleaning_start_battery, status.device_name, status.battery)
    ELSE cleaning_start_battery

\* _check_device, "Detect cleaning start": the start battery after the poll
StartBatteryAfterStart(status) ==
    IF is_cleaning(status)
       /\ status.device_name \notin DOMAIN cleaning_start_battery
    THEN DictSet(cleaning_start_battery, status.device_name, status.battery)
    ELSE cleaning_start_battery

StartBatteryCleared(started, ended, device_id) ==
    IF ended THEN EmptyTable ELSE started

\* _log_cleaning_session, "self.cleaning_start_battery.pop(device_id, None)":
\* the start batteries after the poll, given those after "Detect cleaning
\* start" and whether the poll ended a session
StartBatteryAfterSession(started, ended, device_id) ==
    IF ended THEN DictPop(started, device_id) ELSE started

CleaningEndedLevel(status) == is_idle(status)

CleaningEndedFromNotIdle(status) ==
    /\ status.device_name \in DOMAIN previous_states
    /\ ~is_idle(previous_states[status.device_name])
    /\ is_idle(status)

CleaningEndedSinceStart(status) ==
    /\ status.device_name \in DOMAIN previous_states
    /\ status.device_name \in DOMAIN cleaning_start_battery
    /\ is_idle(status)

\* _check_device, "Detect cleaning end": was_cleaning and is_now_idle
CleaningEnded(status) ==
    /\ status.device_name \in DOMAIN previous_states
    /\ is_cleaning(previous_states[status.device_name])
    /\ is_idle(status)

PreviousStatesClassifiedOnly(status) ==
    IF is_cleaning(status) \/ is_idle(status)
    THEN DictSet(previous_states, status.device_name, status)
    ELSE previous_states

\* _check_device, "Update previous state"
PreviousStatesAfter(status) ==
    DictSet(previous_states, status.device_name, status)

\* the polls left to the environment
PollLimit == IF script = <<>> THEN MaxPolls ELSE Len(script)
PollCount == LET RECURSIVE Sum(_)
                 Sum(S) == IF S = {} THEN 0
                           ELSE LET d == CHOOSE x \in S : TRUE
                                IN  Len(polls[d]) + Sum(S \ {d})
             IN  Sum(DOMAIN polls)

SinkAfterSessionKept(ended, record, append_ok) ==
    IF ended /\ sheets_client
    THEN Append(sink, [table |-> "Cleaning_History", row |-> record])
    ELSE sink

\* _log_cleaning_session, "if self.sheets_client": one append_row of the
\* record, which reaches the sink unless it raises
SinkAfterSession(ended, record, append_ok) ==
    IF ended /\ sheets_client /\ append_ok
    THEN Append(sink, [table |-> "Cleaning_History", row |-> record])
    ELSE sink

CheckDeviceAbsentForgets ==
    /\ mon_pos \in 1..Len(devices)
    /\ mon_pos' = AfterDevice(mon_pos)
    /\ previous_states' = DictPop(previous_states, devices[mon_pos])
    /\ UNCHANGED <<devices, sheets_client, cleaning_start_battery, sink,
                   displayed, polls, events, script>>

\* _check_device when get_device_status returns None
CheckDeviceAbsent ==
    /\ mon_pos \in 1..Len(devices)
    /\ mon_pos' = AfterDevice(mon_pos)
    /\ UNCHANGED <<devices, sheets_client, previous_states,
                   cleaning_start_battery, sink, displayed, polls, events,
                   script>>

\* _check_device on a fetched snapshot, _log_cleaning_session included;
\* append_ok is whether sheets_client.append_row succeeds
CheckDevice(label, r, append_ok) ==
    /\ mon_pos \in 1..Len(devices)
    /\ PollCount < PollLimit
    /\ LET status == DeviceStatus(devices[mon_pos], label, r)
           device_id == status.device_name
           started == StartBatteryAfterStart(status)
           ended == CleaningEnded(status)
           record == CleaningRecord(status, DictGet(started, device_id))
           k == Len(polls[device_id]) + 1
       IN  /\ script # <<>> => script[k] \in {"any", Classify(status)}
           /\ cleaning_start_battery' =
                 StartBatteryAfterSession(started, ended, device_id)
           /\ sink' = SinkAfterSession(ended, record, append_ok)
           /\ displayed' = IF ended /\ ~(sheets_client /\ append_ok)
                           THEN Append(displayed, record)
                           ELSE displayed
           \* append_ok is read only when an append is attempted
           /\ (ended /\ sheets_client) \/ append_ok
           /\ events' = IF ended
                        THEN Append(events, [d |-> device_id, k |-> k,
                                             record |-> record])
                        ELSE events
           /\ previous_states' = PreviousStatesAfter(status)
           /\ polls' = [polls EXCEPT ![device_id] = Append(@, status)]
    /\ mon_pos' = AfterDevice(mon_pos)
    /\ UNCHANGED <<devices, sheets_client, script>>

\* monitor_loop: the cycle is over, sleep and start the next one
MonitorSleep ==
    /\ mon_pos = Len(devices) + 1
    /\ mon_pos' = 1
    /\ UNCHANGED <<devices, sheets_client, previous_states,
                   cleaning_start_battery, sink, displayed, polls, events,
                   script>>

\* CleaningMonitor.__init__ and the start of monitor_loop
MonitorStart(devs, client, scr) ==
    /\ devices = devs
    /\ sheets_client = client
    /\ previous_states = EmptyTable
    /\ cleaning_start_battery = EmptyTable
    /\ mon_pos = 1
    /\ sink = <<>>
    /\ displayed = <<>>
    /\ polls = [d \in DeviceNames |-> <<>>]
    /\ events = <<>>
    /\ script = scr

\* the monitor is not running
MonitorUnused == MonitorStart(<<>>, FALSE, <<>>)

MonitorInit ==
    /\ \E client \in BOOLEAN : MonitorStart(<<"q8", "s7">>, client, <<>>)
    /\ state = EmptyTable
    /\ state_file = AbsentFile
    /\ clock = 0
    /\ last = NoOp
    /\ SyncUnused

MonitorNext ==
    \/ /\ CheckDeviceAbsent
       /\ UNCHANGED smVars
       /\ UNCHANGED syncVars
    \/ /\ \E label \in Labels, r \in Readings, append_ok \in BOOLEAN :
             CheckDevice(label, r, append_ok)
       /\ UNCHANGED smVars
       /\ UNCHANGED syncVars
    \/ /\ MonitorSleep
       /\ UNCHANGED smVars
       /\ UNCHANGED syncVars

SpecMonitor == MonitorInit /\ [][MonitorNext]_vars

\* one device polled through idle, active, active, idle, idle, active, idle
SessionScript == <<"idle", "active", "active", "idle", "idle", "active", "idle">>

ScenarioInit ==
    /\ \E client \in BOOLEAN : MonitorStart(<<"q8">>, client, SessionScript)
    /\ state = EmptyTable
    /\ state_file = AbsentFile
    /\ clock = 0
    /\ last = NoOp
    /\ SyncUnused

SpecScenario == ScenarioInit /\ [][MonitorNext]_vars

\* one device polled through active, unclassified, idle, active, idle
InterruptedScript == <<"active", "unclassified", "idle", "active", "idle">>

InterruptedInit ==
    /\ \E client \in BOOLEAN : MonitorStart(<<"q8">>, client, InterruptedScript)
    /\ state = EmptyTable
    /\ state_file = AbsentFile
    /\ clock = 0
    /\ last = NoOp
    /\ SyncUnused

SpecInterrupted == InterruptedInit /\ [][MonitorNext]_vars

\* one device polled twice, reporting any label in any spelling
AnyLabelScript == <<"any", "any">>

ClassifyInit ==
    /\ \E client \in BOOLEAN : MonitorStart(<<"q8">>, client, AnyLabelScript)
    /\ state = EmptyTable
    /\ state_file = AbsentFile
    /\ clock = 0
    /\ last = NoOp
    /\ SyncUnused

ClassifyNext ==
    \/ /\ CheckDeviceAbsent
       /\ UNCHANGED smVars
       /\ UNCHANGED syncVars
    \/ /\ \E label \in RawLabels, r \in Readings, append_ok \in BOOLEAN :
             CheckDevice(label, r, append_ok)
       /\ UNCHANGED smVars
       /\ UNCHANGED syncVars
    \/ /\ MonitorSleep
       /\ UNCHANGED smVars
       /\ UNCHANGED syncVars

SpecClassify == ClassifyInit /\ [][ClassifyNext]_vars

(***************************************************************************)
(* Claims about the monitor (checked under SpecMonitor and SpecScenario).  *)
(***************************************************************************)
\* an event was emitted at poll k of device d
EventAt(d, k) == \E i \in 1..Len(events) : events[i].d = d /\ events[i].k = k
\* the events emitted for device d
EventsOf(d) == { i \in 1..Len(events) : events[i].d = d }
\* polls k-1 and k of device d are an (active, idle) pair
ActiveThenIdle(d, k) ==
    /\ k > 1
    /\ Classify(polls[d][k - 1]) = "active"
    /\ Classify(polls[d][k]) = "idle"
\* the idle polls of device d
IdlePolls(d) == { k \in 1..Len(polls[d]) : Classify(polls[d][k]) = "idle" }

\* C1: an event is emitted at poll k of a device if and only if poll k-1
\* classifies as active and poll k as idle, so the events of a device are as
\* many as its adjacent (active, idle) pairs.
C1_EventIffActiveThenIdle ==
    \A d \in DeviceNames :
        /\ \A k \in 1..Len(polls[d]) : EventAt(d, k) <=> ActiveThenIdle(d, k)
        /\ Cardinality(EventsOf(d)) =
              Cardinality({ k \in 1..Len(polls[d]) : ActiveThenIdle(d, k) })

C1_Witness ==
    \E d \in DeviceNames :
        /\ Cardinality(EventsOf(d)) = 1
        /\ Cardinality(IdlePolls(d)) = 3

\* C2: the polls idle, active, active, idle, idle, active, idle of one
\* device emit exactly two events, at polls 4 and 7, and the first event
\* carries the battery of poll 2 as its start battery.
C2_ScenarioEvents ==
    LET p == polls["q8"]
    IN  /\ \A i \in 1..Len(events) : events[i].d = "q8" /\ events[i].k \in {4, 7}
        /\ Len(p) < 4 => Len(events) = 0
        /\ (Len(p) >= 4 /\ Len(p) < 7) => Len(events) = 1
        /\ Len(p) = 7 => Len(events) = 2 /\ events[2].k = 7
        /\ Len(events) >= 1 =>
              /\ events[1].k = 4
              /\ events[1].record.battery_start = Some(p[2].battery)

C2_Witness ==
    /\ script = SessionScript
    /\ Len(polls["q8"]) = 7
    /\ Len(events) = 2
    /\ polls["q8"][2].battery # polls["q8"][3].battery

\* C3: after an event of a device, polls that repeat the idle snapshot of
\* the event emit no further event.
C3_RepeatedIdleEmitsNothing ==
    \A i \in 1..Len(events) :
        LET d == events[i].d
            k0 == events[i].k
        IN  \A k \in (k0 + 1)..Len(polls[d]) :
                (\A j \in (k0 + 1)..k : polls[d][j] = polls[d][k0])
                    => ~EventAt(d, k)

C3_Witness ==
    \E i \in 1..Len(events) :
        LET d == events[i].d
            k0 == events[i].k
        IN  /\ Len(polls[d]) >= k0 + 2
            /\ polls[d][k0 + 1] = polls[d][k0]
            /\ polls[d][k0 + 2] = polls[d][k0]
            /\ Cardinality(EventsOf(d)) = 1

\* C19: an unclassified snapshot takes part in no transition: no event is
\* emitted at a poll that is unclassified or that follows an unclassified
\* poll, so the polls active, unclassified, idle of a device emit no event.
C19_UnclassifiedTakesNoPart ==
    \A d \in DeviceNames :
        /\ \A k \in 1..Len(polls[d]) :
              (\/ Classify(polls[d][k]) = "unclassified"
               \/ k > 1 /\ Classify(polls[d][k - 1]) = "unclassified")
                  => ~EventAt(d, k)
        /\ \A k \in 3..Len(polls[d]) :
              (/\ Classify(polls[d][k - 2]) = "active"
               /\ Classify(polls[d][k - 1]) = "unclassified"
               /\ Classify(polls[d][k]) = "idle")
                  => ~EventAt(d, k - 1) /\ ~EventAt(d, k)

C19_Witness ==
    \E d \in DeviceNames :
        /\ Len(polls[d]) = 3
        /\ Classify(polls[d][1]) = "active"
        /\ Classify(polls[d][2]) = "unclassified"
        /\ Classify(polls[d][3]) = "idle"
        /\ EventsOf(d) = {}
        /\ d \in DOMAIN cleaning_start_battery

\* C20: after every _check_device call that obtained a snapshot the stored
\* previous snapshot of the device is that snapshot, whatever its class and
\* whether or not an event was emitted or the sink append failed; a device
\* never polled has no stored snapshot.
C20_PreviousSnapshotIsLastPoll ==
    \A d \in DeviceNames :
        IF polls[d] = <<>>
        THEN d \notin DOMAIN previous_states
        ELSE /\ d \in DOMAIN previous_states
             /\ previous_states[d] = polls[d][Len(polls[d])]

C20_Witness ==
    \E d \in DeviceNames, e \in DeviceNames :
        /\ sheets_client
        /\ EventAt(d, Len(polls[d]))
        /\ Len(displayed) = 1
        /\ displayed[1].device_name = d
        /\ previous_states[d] = polls[d][Len(polls[d])]
        /\ e # d
        /\ polls[e] # <<>>
        /\ Classify(previous_states[e]) = "unclassified"

\* C21: a _check_device call whose snapshot fetch returns absent goes on to
\* the next device having emitted no event, appended and displayed nothing,
\* and left the stored previous snapshot and the stored start battery of
\* every device as they were.
C21_AbsentSnapshotChangesNothing ==
    [][(mon_pos' = mon_pos + 1 /\ polls' = polls) =>
          /\ events' = events
          /\ previous_states' = previous_states
          /\ cleaning_start_battery' = cleaning_start_battery
          /\ sink' = sink
          /\ displayed' = displayed]_vars

C21_Witness ==
    /\ polls["q8"] = <<>>
    /\ Len(polls["s7"]) = 2
    /\ mon_pos = 2
    /\ "s7" \in DOMAIN cleaning_start_battery
    /\ "s7" \in DOMAIN previous_states
    /\ "q8" \notin DOMAIN previous_states

\* the records of device d in a sequence of displayed records
Delivered(seq, d) == { i \in 1..Len(seq) : seq[i].device_name = d }

\* C22: every event leads to one append attempt at most: its record is in
\* the sink or, when there is no client or the append failed, on the screen,
\* never both and never twice, and after the event the monitor state is the
\* same whether the append succeeded or failed (the idle snapshot stored,
\* the start battery cleared), so that no later poll appends for the session.
C22_EventAppendsAtMostOnce ==
    /\ Len(sink) + Len(displayed) = Len(events)
    /\ ~sheets_client => sink = <<>>
    /\ \A i \in 1..Len(sink) : sink[i].table = "Cleaning_History"
    /\ \A d \in DeviceNames :
          /\ Cardinality({ i \in 1..Len(sink) : sink[i].row.device_name = d })
                + Cardinality(Delivered(displayed, d))
                = Cardinality(EventsOf(d))
          /\ (polls[d] # <<>> /\ EventAt(d, Len(polls[d]))) =>
                /\ previous_states[d] = polls[d][Len(polls[d])]
                /\ d \notin DOMAIN cleaning_start_battery
    /\ \A i \in 1..Len(events) :
          \/ \E j \in 1..Len(sink) : sink[j].row = events[i].record
          \/ \E j \in 1..Len(displayed) : displayed[j] = events[i].record

C22_Witness ==
    \E d \in DeviceNames :
        /\ sheets_client
        /\ Len(events) = 1
        /\ displayed = <<events[1].record>>
        /\ sink = <<>>
        /\ events[1].d = d
        /\ Len(polls[d]) = events[1].k + 2
        /\ Classify(polls[d][Len(polls[d])]) = "idle"

\* C27: the record of an event takes its end battery, clean time, cleaned
\* area, fan power, mop mode, water level and error code from the idle
\* snapshot that closed the session, and its state is "completed".
C27_RecordFromClosingSnapshot ==
    \A i \in 1..Len(events) :
        LET closing == polls[events[i].d][events[i].k]
            record == events[i].record
        IN  /\ Classify(closing) = "idle"
            /\ record.device_name = events[i].d
            /\ record.battery_end = closing.battery
            /\ record.clean_time_minutes = closing.clean_time
            /\ record.clean_area_sqm = closing.clean_area
            /\ record.fan_power = closing.fan_power
            /\ record.mop_mode = closing.mop_mode
            /\ record.error_code = closing.error_code
            /\ record.water_level =
                  (IF closing.water_box_status \in {None, Some(0)}
                   THEN None
                   ELSE Some(str(closing.water_box_status[1])))
            /\ record.state = "completed"

C27_Witness ==
    \E i \in 1..Len(events) :
        LET d == events[i].d
            k == events[i].k
        IN  /\ polls[d][k].battery # polls[d][k - 1].battery
            /\ events[i].record.battery_end = polls[d][k].battery
            /\ events[i].record.water_level # None

\* the first poll of the contiguous active run of d that ends at poll k - 1
RunStart(d, k) ==
    CHOOSE j \in 1..(k - 1) :
        /\ \A m \in j..(k - 1) : Classify(polls[d][m]) = "active"
        /\ j = 1 \/ Classify(polls[d][j - 1]) # "active"

\* C25: the start battery an event carries is the battery of the first
\* active snapshot of the contiguous active run that the event ends, never
\* one recorded for an earlier run.
C25_StartBatteryIsOfTheRunEnded ==
    \A i \in 1..Len(events) :
        LET d == events[i].d
            k == events[i].k
        IN  events[i].record.battery_start =
                Some(polls[d][RunStart(d, k)].battery)

\* C26: a start battery is stored for a device only while its most recent
\* stored snapshot classifies as active, and right after an event of the
\* device none is stored.
C26_StartBatteryOnlyWhileActive ==
    \A d \in DeviceNames :
        /\ d \in DOMAIN cleaning_start_battery =>
              /\ d \in DOMAIN previous_states
              /\ Classify(previous_states[d]) = "active"
        /\ (polls[d] # <<>> /\ EventAt(d, Len(polls[d]))) =>
              d \notin DOMAIN cleaning_start_battery

\* C33: every event carries a start battery, and a device whose stored
\* snapshot is active has a start battery stored, also when its first
\* snapshot ever was an active one.
C33_EventHasStartBattery ==
    /\ \A i \in 1..Len(events) : events[i].record.battery_start # None
    /\ \A d \in DOMAIN previous_states :
          is_cleaning(previous_states[d]) =>
              d \in DOMAIN cleaning_start_battery

\* monitoring began in the middle of a session: the first snapshot of the
\* device was active, the second one idle, and the event carries the
\* battery of the first
C33_Witness ==
    \E i \in 1..Len(events) :
        LET d == events[i].d
        IN  /\ events[i].k = 2
            /\ Classify(polls[d][1]) = "active"
            /\ events[i].record.battery_start = Some(polls[d][1].battery)
            /\ polls[d][1].battery # polls[d][2].battery

\* what a monitor that polls one device only stores and emits after the
\* first k snapshots of the sequence ps: the start battery and the events
RECURSIVE Alone(_, _)
Alone(ps, k) ==
    IF k = 0
    THEN [start_battery |-> None, evs |-> <<>>]
    ELSE LET before == Alone(ps, k - 1)
             status == ps[k]
             started == IF is_cleaning(status) /\ before.start_battery = None
                        THEN Some(status.battery)
                        ELSE before.start_battery
             ended == k > 1 /\ is_cleaning(ps[k - 1]) /\ is_idle(status)
         IN  [start_battery |-> IF ended THEN None ELSE started,
              evs |-> IF ended
                      THEN Append(before.evs,
                                  [d |-> status.device_name, k |-> k,
                                   record |-> CleaningRecord(status, started)])
                      ELSE before.evs]

\* the events of device d, in the order they were emitted
EventSeqOf(d) ==
    LET IsOf(e) == e.d = d
    IN  SelectSeq(events, IsOf)

\* C38: what the monitor stores and emits for a device is what a monitor
\* polling that device alone would store and emit on the same snapshots:
\* the checks of the other devices, however interleaved, change neither its
\* previous snapshot nor its start battery nor its events.
C38_DeviceDependsOnOwnSnapshots ==
    \A d \in DeviceNames :
        LET n == Len(polls[d])
            alone == Alone(polls[d], n)
        IN  /\ EventSeqOf(d) = alone.evs
            /\ DictGet(cleaning_start_battery, d) = alone.start_battery
            /\ DictGet(previous_states, d) =
                  IF n = 0 THEN None ELSE Some(polls[d][n])

\* the polls of two devices alternate, each device ends a session, and the
\* event of the first is emitted while the second is still active
C38_Witness ==
    /\ Len(events) = 2
    /\ events[1].d = devices[1]
    /\ events[2].d = devices[2]
    /\ events[1].k = 2
    /\ events[2].k = 2
    /\ \A i \in 1..2 :
          events[i].record.battery_start = Some(polls[events[i].d][1].battery)
    /\ polls[devices[1]][1].battery # polls[devices[2]][1].battery

\* the spellings of one label that differ in letter case only
CaseGroups ==
    {{"cleaning", "Cleaning", "CLEANING"},
     {"segmentcleaning", "SegmentCleaning"},
     {"charger", "Charger"}, {"idle", "Idle"}, {"charging", "Charging"},
     {"paused", "Paused"}, {"returning_home", "Returning_Home"}}
SameLetters(a, b) == a = b \/ \E g \in CaseGroups : a \in g /\ b \in g
\* the snapshots fetched so far, of all devices
Polled == UNION { Range(polls[d]) : d \in DeviceNames }

\* C18: every polled snapshot falls in exactly one of the classes active,
\* idle and unclassified, none satisfies both is_cleaning and is_idle, and
\* two snapshots whose labels differ in letter case only get the same
\* answers from is_cleaning and is_idle.
C18_ClassificationIsExclusiveAndCaseBlind ==
    /\ \A s \in Polled :
          /\ ~(is_cleaning(s) /\ is_idle(s))
          /\ Cardinality({ c \in {"active", "idle", "unclassified"} :
                             \/ c = "active" /\ is_cleaning(s)
                             \/ c = "idle" /\ is_idle(s)
                             \/ c = "unclassified" /\ ~is_cleaning(s)
                                   /\ ~is_idle(s) }) = 1
    /\ \A s1 \in Polled, s2 \in Polled :
          SameLetters(s1.state, s2.state) =>
              /\ is_cleaning(s1) <=> is_cleaning(s2)
              /\ is_idle(s1) <=> is_idle(s2)

C18_Witness ==
    /\ script = AnyLabelScript
    /\ Len(polls["q8"]) = 2
    /\ polls["q8"][1].state = "CLEANING"
    /\ polls["q8"][2].state = "cleaning"
    /\ is_cleaning(polls["q8"][1])
    /\ Len(events) = 0

(***************************************************************************)
(* smart_sync: one run over collector.devices, in a process of its own.    *)
(***************************************************************************)
\* get_clean_summary: the lifetime summary of a device, None when absent
Summaries ==
    { [total_clean_count |-> n, total_clean_area |-> 12 * n,
       total_clean_time |-> 30 * n] : n \in 0..MaxSyncCount }

\* the status smart_sync logs: the device as it stands on the dock
DockedStatus(name) ==
    DeviceStatus(name, "Charging",
                 CHOOSE r \in Readings : r.battery = 100)

\* the rows smart_sync tries to append for a device, in order (a row is
\* kept as its table and its device)
SmartRows(device_name, summary, has_status, has_consumables) ==
    (IF has_status
     THEN <<[table |-> "Device_Status", row |-> DockedStatus(device_name)]>>
     ELSE <<>>)
    \o <<[table |-> "Clean_Summary",
          row |-> [device_name |-> device_name,
                   total_clean_count |-> summary.total_clean_count]]>>
    \o (IF has_consumables
        THEN <<[table |-> "Consumables", row |-> [device_name |-> device_name]]>>
        ELSE <<>>)

\* get_device_status as smart_sync calls it: the docked device answers
StatusFetches == {TRUE}
\* get_consumables: whether the consumables are returned or absent
ConsumablesFetches == BOOLEAN

\* what ends the step of a device with a new cleaning: the process stops
\* before update_device_state ("stopped"), or update_device_state runs and
\* _save ends in one of its outcomes
CommitOutcomes == SaveOutcomes \cup {"stopped"}

TriesSheetsAgain(client, failed) == client

\* "if sheets_client and not sheets_failed": whether the rows of a device
\* are sent to the sheet
TriesSheets(client, failed) == client /\ ~failed

CommitsCursorOnSuccess(failed) == ~failed

\* "Update state regardless of sheets success": whether update_device_state
\* is called after the appends of a device, given whether one of them failed
CommitsCursor(failed) == TRUE

FileAfterStopCommitted(f, updated) == WrittenFile(updated)

\* the file when the process stops after the appends of a device:
\* update_device_state, which follows them, has not run
FileAfterStop(f, updated) == f

\* smart_sync(): a new process loads the file and sets up the sheets client
SmartStart(client) ==
    /\ sync_mode = "off"
    /\ sync_mode' = "smart"
    /\ sync_pos' = 1
    /\ sheets_failed' = FALSE
    /\ sheets_client' = client
    /\ state' = _load(state_file)
    /\ sync_last' = NoStep
    /\ UNCHANGED <<state_file, clock, last, driver, peer_state, devices, previous_states,
                   cleaning_start_battery, mon_pos, sink, displayed, polls,
                   events, script, history>>

SmartDeviceAbsentRaises ==
    /\ sync_mode = "smart"
    /\ sync_pos <= Len(devices)
    /\ sync_mode' = "off"
    /\ sync_pos' = 1
    /\ state' = EmptyTable
    /\ sync_last' = [NoStep EXCEPT !.op = "absent", !.d = devices[sync_pos],
                                   !.raised = TRUE]
    /\ UNCHANGED <<state_file, clock, last, driver, peer_state, sheets_failed, history>>
    /\ UNCHANGED monVars

\* the loop body when get_clean_summary returns None: continue
SmartDeviceAbsent ==
    /\ sync_mode = "smart"
    /\ sync_pos <= Len(devices)
    /\ sync_pos' = AfterDevice(sync_pos)
    /\ sync_last' = [NoStep EXCEPT !.op = "absent", !.d = devices[sync_pos]]
    /\ UNCHANGED <<state, state_file, clock, last, driver, peer_state, sync_mode, sheets_failed,
                   history>>
    /\ UNCHANGED monVars

\* the loop body when has_new_cleaning is false: [SKIP]
SmartDeviceSkip(summary) ==
    /\ sync_mode = "smart"
    /\ sync_pos <= Len(devices)
    /\ LET device_name == devices[sync_pos]
           current_count == summary.total_clean_count
       IN  /\ ~has_new_cleaning(state, device_name, current_count)
           /\ sync_last' = [NoStep EXCEPT
                  !.op = "skip", !.d = device_name, !.n = current_count,
                  !.stored = get_last_clean_count(state, device_name)]
    /\ sync_pos' = AfterDevice(sync_pos)
    /\ UNCHANGED <<state, state_file, clock, last, driver, peer_state, sync_mode, sheets_failed,
                   history>>
    /\ UNCHANGED monVars

\* the loop body when has_new_cleaning is true: the appends (the fail_at-th
\* attempted append fails, none when fail_at is 0), then update_device_state
SmartDeviceNew(summary, has_status, has_consumables, fail_at, outcome) ==
    /\ sync_mode = "smart"
    /\ sync_pos <= Len(devices)
    /\ clock < MaxClock
    /\ clock' = clock + 1
    /\ LET device_name == devices[sync_pos]
           current_count == summary.total_clean_count
           attempts == IF TriesSheets(sheets_client, sheets_failed)
                       THEN SmartRows(device_name, summary, has_status,
                                      has_consumables)
                       ELSE <<>>
           failed == fail_at \in 1..Len(attempts)
           appended == IF failed THEN SubSeq(attempts, 1, fail_at - 1)
                       ELSE attempts
           updated == IF CommitsCursor(failed)
                      THEN update_device_state(state, device_name,
                               current_count, summary.total_clean_area,
                               summary.total_clean_time, clock')
                      ELSE state
       IN  /\ has_new_cleaning(state, device_name, current_count)
           \* the inputs are read only when rows are attempted
           /\ fail_at <= Len(attempts)
           /\ attempts = <<>> => (has_status /\ has_consumables)
           /\ sink' = sink \o appended
           /\ sheets_failed' = (sheets_failed \/ failed)
           /\ sync_last' = [NoStep EXCEPT
                  !.op = "new", !.d = device_name, !.n = current_count,
                  !.stored = get_last_clean_count(state, device_name),
                  !.new_count = get_new_cleaning_count(state, device_name,
                                                       current_count),
                  !.attempted = Len(appended) + (IF failed THEN 1 ELSE 0),
                  !.appended = Len(appended),
                  !.outcome = outcome,
                  !.wrote = outcome # "stopped",
                  !.raised = outcome \in {"unwritten", "torn"}]
           /\ IF outcome = "ok"
              THEN /\ state' = updated
                   /\ state_file' = _save(state_file, updated, outcome)
                   /\ sync_pos' = AfterDevice(sync_pos)
                   /\ UNCHANGED sync_mode
              ELSE \* the exception of _save leaves smart_sync, or the
                   \* process has stopped: the run is over
                   /\ state' = EmptyTable
                   /\ state_file' = IF outcome = "stopped"
                                    THEN FileAfterStop(state_file, updated)
                                    ELSE _save(state_file, updated, outcome)
                   /\ sync_mode' = "off"
                   /\ sync_pos' = 1
    /\ UNCHANGED <<last, driver, peer_state, devices, sheets_client, previous_states,
                   cleaning_start_battery, mon_pos, displayed, polls, events,
                   script, history>>

\* "[SMART SYNC] Done!": the run returns and its StateManager is gone
SmartDone ==
    /\ sync_mode = "smart"
    /\ sync_pos = Len(devices) + 1
    /\ sync_mode' = "off"
    /\ sync_pos' = 1
    /\ state' = EmptyTable
    /\ UNCHANGED <<state_file, clock, last, driver, peer_state, sheets_failed, sync_last, history>>
    /\ UNCHANGED monVars

\* the cursors the file may hold when the first run starts
SmartInitFiles ==
    {AbsentFile, CorruptFile,
     WrittenFile(update_device_state(EmptyTable, "q8", 1, 12, 30, 0))}

SmartInit ==
    /\ state_file \in SmartInitFiles
    /\ state = EmptyTable
    /\ clock = 0
    /\ last = NoOp
    /\ MonitorStart(<<"q8", "s7">>, FALSE, <<>>)
    /\ SyncUnused

SmartNext ==
    \/ \E client \in BOOLEAN : SmartStart(client)
    \/ SmartDeviceAbsent
    \/ \E summary \in Summaries : SmartDeviceSkip(summary)
    \/ \E summary \in Summaries, has_status \in StatusFetches,
          has_consumables \in ConsumablesFetches, fail_at \in 0..3,
          outcome \in CommitOutcomes :
          SmartDeviceNew(summary, has_status, has_consumables, fail_at, outcome)
    \/ SmartDone

SpecSmart == SmartInit /\ [][SmartNext]_vars

(***************************************************************************)
(* The StateManager driven directly: any sequence of commits, queries and  *)
(* process restarts.                                                       *)
(***************************************************************************)
\* a table both syncs have written: every entry also holds the timestamp
\* of the record-level sync
BothSyncsTable ==
    [d \in DeviceNames |->
        [last_clean_count |-> 2, last_total_area |-> 12,
         last_total_time |-> 30, last_updated |-> 0,
         last_record_timestamp |-> 3]]

InitFiles ==
    {AbsentFile, CorruptFile, WrittenFile(BothSyncsTable)}
    \cup { WrittenFile(update_device_state(EmptyTable, d, n, 12, 30, 0)) :
             d \in DeviceNames, n \in {0, 2} }

SMInit ==
    /\ state_file \in InitFiles
    /\ state = _load(state_file)
    /\ clock = 0
    /\ last = NoOp
    /\ MonitorUnused
    /\ SyncUnused

\* update_device_state(d, n, a, t): replace the entry, then save
SMUpdate(d, n, a, t, outcome) ==
    /\ clock < MaxClock
    /\ clock' = clock + 1
    /\ state' = update_device_state(state, d, n, a, t, clock')
    /\ state_file' = _save(state_file, state', outcome)
    /\ last' = [NoOp EXCEPT !.op = "update", !.d = d, !.n = n, !.a = a,
                            !.t = t, !.outcome = outcome]
    /\ UNCHANGED monVars
    /\ UNCHANGED syncVars

\* has_new_cleaning(d, n) and get_new_cleaning_count(d, n)
SMQuery(d, n) ==
    /\ last' = [NoOp EXCEPT
                   !.op = "query", !.d = d, !.n = n,
                   !.has_new = has_new_cleaning(state, d, n),
                   !.new_count = get_new_cleaning_count(state, d, n)]
    /\ UNCHANGED <<state, state_file, clock>>
    /\ UNCHANGED monVars
    /\ UNCHANGED syncVars

\* a new process: StateManager() loads the file
SMRestart ==
    /\ state' = _load(state_file)
    /\ last' = [NoOp EXCEPT !.op = "restart"]
    /\ UNCHANGED <<state_file, clock>>
    /\ UNCHANGED monVars
    /\ UNCHANGED syncVars

SMNext ==
    \/ \E d \in DeviceNames, n \in Counts, a \in Areas, t \in Times,
          outcome \in SaveOutcomes : SMUpdate(d, n, a, t, outcome)
    \/ \E d \in DeviceNames, n \in Counts : SMQuery(d, n)
    \/ SMRestart

SpecState == SMInit /\ [][SMNext]_vars

(***************************************************************************)
(* Claims about the StateManager (checked under SpecState).                *)
(***************************************************************************)
\* the count the table holds for d, read off the table itself: 0 without a cursor
StoredCount(d) == IF d \in DOMAIN state THEN state[d].last_clean_count ELSE 0

\* C4: has_new_cleaning(d, n) returns true if and only if n is strictly
\* greater than the stored last_clean_count of d, a device without a cursor
\* counting as 0.
C4_HasNewIffGreater ==
    last.op = "query" => (last.has_new <=> last.n > StoredCount(last.d))

C4_Witness ==
    /\ last.op = "query"
    /\ last.d \in DOMAIN state
    /\ StoredCount(last.d) > 0
    /\ last.has_new

\* C5: get_new_cleaning_count(d, n) returns max(0, n - last_clean_count(d))
\* and is never negative.
C5_NewCountIsClampedDifference ==
    last.op = "query" =>
        /\ last.new_count >= 0
        /\ last.n >= StoredCount(last.d) =>
               last.new_count = last.n - StoredCount(last.d)
        /\ last.n < StoredCount(last.d) => last.new_count = 0

C5_Witness ==
    /\ last.op = "query"
    /\ last.n < StoredCount(last.d)
    /\ last.new_count = 0

\* C6: right after update_device_state(d, n, ...) has_new_cleaning(d, n) is
\* false and, for every m, has_new_cleaning(d, m) is true exactly when m > n,
\* get_new_cleaning_count(d, m) being m - n then; without a cursor
\* has_new_cleaning(d, 5) is true and get_new_cleaning_count(d, 5) is 5.
C6_CommitThenQuery ==
    /\ last.op = "update" =>
          /\ ~has_new_cleaning(state, last.d, last.n)
          /\ \A m \in Counts :
                /\ has_new_cleaning(state, last.d, m) <=> m > last.n
                /\ m > last.n =>
                      get_new_cleaning_count(state, last.d, m) = m - last.n
    /\ (last.op = "query" /\ last.d \notin DOMAIN state /\ last.n = 5) =>
          (last.has_new /\ last.new_count = 5)

C6_Witness ==
    /\ last.op = "update"
    /\ last.n = 3
    /\ has_new_cleaning(state, last.d, 5)
    /\ get_new_cleaning_count(state, last.d, 5) = 2

\* the fields update_device_state writes
CursorFields ==
    {"last_clean_count", "last_total_area", "last_total_time", "last_updated"}

\* C14: update_device_state(d, count, area, time) replaces the entry of d
\* with exactly the fields last_clean_count, last_total_area,
\* last_total_time and last_updated (a field stored before is discarded),
\* leaves the entries of all other devices unchanged and, when the write
\* completes, leaves in the file a document of the whole table.
C14_UpdateReplacesEntryAndRewritesTable ==
    [][clock' # clock =>
          LET d == last'.d
          IN  /\ last'.op = "update"
              /\ DOMAIN state' = DOMAIN state \cup {d}
              /\ DOMAIN state'[d] = CursorFields
              /\ state'[d].last_clean_count = last'.n
              /\ state'[d].last_total_area = last'.a
              /\ state'[d].last_total_time = last'.t
              /\ state'[d].last_updated = clock'
              /\ \A x \in DOMAIN state \ {d} : state'[x] = state[x]
              /\ last'.outcome = "ok" =>
                    /\ state_file'.kind = "json"
                    /\ { p[1] : p \in state_file'.doc } = DOMAIN state'
                    /\ \A p \in state_file'.doc :
                          p[2] = { <<f, state'[p[1]][f]>> :
                                     f \in DOMAIN state'[p[1]] }]_vars

C14_Witness ==
    /\ last.op = "update"
    /\ last.outcome = "ok"
    /\ last.d = "q8"
    /\ DOMAIN state["q8"] = CursorFields
    /\ "s7" \in DOMAIN state
    /\ "last_record_timestamp" \in DOMAIN state["s7"]
    /\ Cardinality(state_file.doc) = 2

\* C15: after a save that completed, loading the file in a new StateManager
\* gives a table with the same devices, none added and none lost, and for
\* each the same last_clean_count, last_total_area and last_total_time.
C15_SaveLoadRoundTrip ==
    (last.op = "update" /\ last.outcome = "ok") =>
        LET loaded == _load(state_file)
        IN  /\ DOMAIN loaded = DOMAIN state
            /\ \A d \in DOMAIN state :
                  \A f \in DOMAIN state[d] :
                      /\ f \in DOMAIN loaded[d]
                      /\ loaded[d][f] = state[d][f]
            /\ \A d \in DOMAIN state :
                  get_last_clean_count(loaded, d) = StoredCount(d)

C15_Witness ==
    /\ last.op = "update"
    /\ last.outcome = "ok"
    /\ DOMAIN state = DeviceNames
    /\ StoredCount("q8") = 3
    /\ StoredCount("s7") = 5
    /\ DOMAIN _load(state_file) = DeviceNames

\* C16: a StateManager constructed over an absent or unparsable file holds
\* the empty table, so that every device has last_clean_count 0 and any
\* positive count is new.
C16_AbsentOrCorruptFileGivesEmptyTable ==
    (last.op \in {"none", "restart"}
        /\ state_file.kind \in {"absent", "corrupt"}) =>
        /\ state = EmptyTable
        /\ \A d \in DeviceNames :
              /\ get_last_clean_count(state, d) = 0
              /\ has_new_cleaning(state, d, 1)

C16_Witness ==
    /\ last.op = "restart"
    /\ state_file.kind = "corrupt"
    /\ clock > 0
    /\ state = EmptyTable

(***************************************************************************)
(* Claims about smart_sync (checked under SpecSmart).                      *)
(***************************************************************************)
\* the count a process starting now would load for d from the file
PersistedCount(f, d) ==
    IF f.kind = "json" /\ \E p \in f.doc : p[1] = d
    THEN LET members == (CHOOSE p \in f.doc : p[1] = d)[2]
         IN  (CHOOSE m \in members : m[1] = "last_clean_count")[2]
    ELSE 0

\* C7: on a counter regression (current count below the stored one)
\* has_new_cleaning is false and get_new_cleaning_count is 0; the step of
\* smart_sync for that device raises nothing, appends nothing and writes
\* no cursor.
C7_RegressionIsNoNovelty ==
    /\ sync_mode = "smart" =>
          \A d \in DeviceNames, n \in 0..MaxSyncCount :
              n < StoredCount(d) =>
                  /\ ~has_new_cleaning(state, d, n)
                  /\ get_new_cleaning_count(state, d, n) = 0
    /\ (sync_last.op # "none" /\ sync_last.n < sync_last.stored) =>
          /\ sync_last.op = "skip"
          /\ sync_last.appended = 0
          /\ ~sync_last.raised
          /\ ~sync_last.wrote

C7_Witness ==
    /\ sync_last.op = "skip"
    /\ sync_last.stored = 2
    /\ sync_last.n = 1
    /\ Len(sink) > 0

\* C8: over any sequence of smart_sync runs and restarts the persisted
\* last_clean_count of a device never decreases.
C8_PersistedCountNeverDecreases ==
    [][\A d \in DeviceNames :
          PersistedCount(state_file', d) >= PersistedCount(state_file, d)]_vars

\* the file holds a cursor for d
HasPersistedCursor(f, d) == f.kind = "json" /\ \E p \in f.doc : p[1] = d

\* C17: when the file holds the count n that an earlier run committed for a
\* device and a run in a new process finds the device still reporting n, the
\* step of that device detects no new cleaning: it appends nothing to the
\* sink and rewrites neither the cursor table nor the file.
C17_RestartIsIdempotent ==
    [][(/\ sync_mode = "smart"
        /\ sync_last'.op \in {"skip", "new"}
        /\ (sync_pos' = sync_pos + 1 \/ clock' # clock)
        /\ HasPersistedCursor(state_file, sync_last'.d)
        /\ sync_last'.n = PersistedCount(state_file, sync_last'.d)) =>
            /\ sync_last'.op = "skip"
            /\ sync_last'.stored = sync_last'.n
            /\ sync_last'.appended = 0
            /\ ~sync_last'.wrote
            /\ sink' = sink
            /\ state' = state
            /\ state_file' = state_file
            /\ clock' = clock]_vars

C17_Witness ==
    /\ sync_last.op = "skip"
    /\ sync_last.n = 2
    /\ sync_last.stored = 2
    /\ PersistedCount(state_file, sync_last.d) = 2
    /\ clock > 0
    /\ Len(sink) > 0

\* the position of device d in collector.devices
DeviceIndex(d) == CHOOSE i \in 1..Len(devices) : devices[i] = d

\* C24: when the persistence write of a commit fails, smart_sync raises
\* nothing and goes on to the remaining devices of the run.
C24_SaveFailureIsNotFatal ==
    (sync_last.op = "new" /\ sync_last.outcome \in {"unwritten", "torn"}) =>
        /\ ~sync_last.raised
        /\ sync_mode = "smart"
        /\ sync_pos = DeviceIndex(sync_last.d) + 1

\* a device step of the running smart_sync is taken
SmartDeviceStep ==
    /\ sync_mode = "smart"
    /\ sync_last'.op \in {"skip", "new"}
    /\ (sync_pos' = sync_pos + 1 \/ clock' # clock)

\* C28: when the process stops after the appends of a device and before
\* the cursor is persisted, the file is left as it was, so that a run that
\* reloads it finds the same count new; and every run that finds a count
\* above the persisted one detects the novelty and, with a working sink,
\* appends rows for it, whether or not rows for it were appended before.
C28_StopBeforeCommitRedelivers ==
    [][/\ (sync_last'.op = "new" /\ sync_last'.outcome = "stopped"
            /\ clock' # clock) =>
              /\ state_file' = state_file
              /\ has_new_cleaning(_load(state_file'), sync_last'.d,
                                  sync_last'.n)
              /\ get_new_cleaning_count(_load(state_file'), sync_last'.d,
                                        sync_last'.n) = sync_last'.new_count
       /\ (SmartDeviceStep
            /\ sync_last'.n > PersistedCount(state_file, sync_last'.d)) =>
              /\ sync_last'.op = "new"
              /\ sync_last'.new_count =
                    sync_last'.n - PersistedCount(state_file, sync_last'.d)
              /\ (sheets_client /\ ~sheets_failed) =>
                    /\ sync_last'.attempted >= 1
                    /\ Len(sink') = Len(sink) + sync_last'.appended
                    /\ sync_last'.appended >= sync_last'.attempted - 1]_vars

C28_Witness ==
    \E i \in 1..Len(sink), j \in 1..Len(sink) :
        /\ i < j
        /\ sink[i] = sink[j]
        /\ sink[i].table = "Clean_Summary"
        /\ sink[i].row.device_name = sync_last.d
        /\ sink[i].row.total_clean_count = sync_last.n
        /\ sync_last.op = "new"
        /\ sync_last.outcome = "stopped"
        /\ sync_last.appended = sync_last.attempted
        /\ PersistedCount(state_file, sync_last.d) < sync_last.n

\* C29: for a device with a detected novelty, once the cursor write has
\* completed the persisted count is the current count, whether the appends
\* succeeded, failed or were not attempted; a run that reloads the file
\* finds no new cleaning for that count.
C29_CursorAdvancesWhateverTheAppendsDid ==
    (sync_last.op = "new" /\ sync_last.outcome = "ok") =>
        /\ HasPersistedCursor(state_file, sync_last.d)
        /\ PersistedCount(state_file, sync_last.d) = sync_last.n
        /\ ~has_new_cleaning(_load(state_file), sync_last.d, sync_last.n)
        /\ get_new_cleaning_count(_load(state_file), sync_last.d,
                                  sync_last.n) = 0

C29_Witness ==
    /\ sync_last.op = "new"
    /\ sync_last.outcome = "ok"
    /\ sync_last.attempted = 2
    /\ sync_last.appended = 1
    /\ sheets_failed
    /\ PersistedCount(state_file, sync_last.d) = sync_last.n

\* C37: once an append has failed in a run of smart_sync, the steps of the
\* later devices of that run attempt no append, and those with a detected
\* novelty still have their cursor moved to the current count when the
\* write completes.
C37_NoAppendAfterFailure ==
    [][(/\ sync_mode = "smart"
        /\ sheets_failed
        /\ sync_last' # sync_last
        /\ sync_last'.op \in {"new", "skip", "absent"}) =>
          /\ sync_last'.attempted = 0
          /\ sync_last'.appended = 0
          /\ sink' = sink
          /\ sheets_failed'
          /\ (sync_last'.op = "new" /\ sync_last'.outcome = "ok") =>
                /\ PersistedCount(state_file', sync_last'.d) = sync_last'.n
                /\ sync_last'.n > PersistedCount(state_file, sync_last'.d)]_vars

\* the append of the first device failed, and the second device, with a
\* new cleaning, was committed with no append attempted
C37_Witness ==
    /\ sync_mode = "smart"
    /\ sheets_client
    /\ sheets_failed
    /\ sync_last.op = "new"
    /\ sync_last.d = devices[2]
    /\ sync_last.attempted = 0
    /\ sync_last.outcome = "ok"
    /\ PersistedCount(state_file, devices[2]) = sync_last.n
    /\ PersistedCount(state_file, devices[1]) >= 1

\* C32: when the lifetime summary of a device is absent, smart_sync skips
\* the device without raising: no row is appended, the cursor table and the
\* file are unchanged, and the run goes on to the next device.
C32_AbsentSummarySkipsDevice ==
    [][(sync_mode = "smart" /\ sync_last'.op = "absent"
        /\ sync_last' # sync_last) =>
          /\ sync_last'.d = devices[sync_pos]
          /\ ~sync_last'.raised
          /\ sink' = sink
          /\ displayed' = displayed
          /\ state' = state
          /\ state_file' = state_file
          /\ sheets_failed' = sheets_failed
          /\ sync_mode' = "smart"
          /\ sync_pos' = sync_pos + 1]_vars

\* the first device had no summary and the second one, with a new cleaning,
\* has been committed in the same run
C32_Witness ==
    /\ sync_mode = "smart"
    /\ sync_pos = Len(devices) + 1
    /\ sync_last.op = "new"
    /\ sync_last.d = devices[2]
    /\ sync_last.outcome = "ok"
    /\ clock = 1
    /\ ~HasPersistedCursor(state_file, devices[1])
    /\ HasPersistedCursor(state_file, devices[2])

(***************************************************************************)
(* sync_new_records: one run over collector.devices, in a process of its   *)
(* own.                                                                    *)
(***************************************************************************)
\* get_clean_records(device, limit=5)
RecordLimit == 5

\* a record of the device's history; records are numbered by start time
HistoryRecord(name, t) == [device_name |-> name, start_time |-> t]

\* get_clean_records: the `limit` most recent records of the n a device
\* holds, most recent first
get_clean_records(name, n, limit) ==
    [i \in 1..(IF n < limit THEN n ELSE limit) |-> HistoryRecord(name, n + 1 - i)]

FetchPageAll(name, n) == get_clean_records(name, n, n)

\* "records = await collector.get_clean_records(device, limit=5)": the page
\* a cycle fetches for a device that holds n records
FetchPage(name, n) == get_clean_records(name, n, RecordLimit)

\* StateManager.get_last_record_timestamp: None when nothing is stored
get_last_record_timestamp(tbl, d) ==
    LET device_state == get_device_state(tbl, d)
    IN  IF "last_record_timestamp" \in DOMAIN device_state
        THEN Some(device_state["last_record_timestamp"])
        ELSE None

\* StateManager.update_last_record_timestamp: set the field in the entry
update_last_record_timestamp(tbl, d, ts) ==
    LET old == get_device_state(tbl, d)
    IN  DictSet(tbl, d, DictSet(old, "last_record_timestamp", ts))

FilterNewRecordsAll(records, last_timestamp) ==
    IF last_timestamp = None
    THEN records
    ELSE SelectSeq(records, LAMBDA r : r.start_time > last_timestamp[1])

FilterNewRecordsGe(records, last_timestamp) ==
    IF records = <<>> THEN <<>>
    ELSE IF last_timestamp = None
    THEN <<records[1]>>
    ELSE SelectSeq(records, LAMBDA r : r.start_time >= last_timestamp[1])

\* "Filter to only new records": the loop over the fetched records
FilterNewRecords(records, last_timestamp) ==
    IF records = <<>> THEN <<>>
    ELSE IF last_timestamp = None
    THEN <<records[1]>>
    ELSE SelectSeq(records, LAMBDA r : r.start_time > last_timestamp[1])

same_order(seq) == seq

\* reversed(seq)
reversed(seq) == [i \in 1..Len(seq) |-> seq[Len(seq) + 1 - i]]

DeliveryRetrying(ordered, client, fail_at) ==
    IF ~client
    THEN [appended |-> <<>>, shown |-> ordered, attempted |-> 0]
    ELSE IF fail_at \in 1..Len(ordered)
    THEN [appended |-> SubSeq(ordered, 1, fail_at - 1)
                          \o SubSeq(ordered, fail_at + 1, Len(ordered)),
          shown |-> <<ordered[fail_at]>>,
          attempted |-> Len(ordered)]
    ELSE [appended |-> ordered, shown |-> <<>>, attempted |-> Len(ordered)]

\* "Log new records (oldest first to maintain order)": the loop over
\* reversed(new_records).  While sheets_write_ok holds each record is
\* appended; the fail_at-th append raises, which clears sheets_write_ok, and
\* that record and every later one is displayed instead.  Without a client
\* every record is displayed.
Delivery(ordered, client, fail_at) ==
    IF ~client
    THEN [appended |-> <<>>, shown |-> ordered, attempted |-> 0]
    ELSE IF fail_at \in 1..Len(ordered)
    THEN [appended |-> SubSeq(ordered, 1, fail_at - 1),
          shown |-> SubSeq(ordered, fail_at, Len(ordered)),
          attempted |-> fail_at]
    ELSE [appended |-> ordered, shown |-> <<>>, attempted |-> Len(ordered)]

CursorTimestampOldest(records, ordered, attempted) == ordered[1].start_time

CursorTimestampAttempted(records, ordered, attempted) ==
    IF attempted = 0 THEN records[1].start_time
    ELSE ordered[attempted].start_time

\* "Update the last timestamp to the most recent record": the timestamp
\* handed to update_last_record_timestamp after the delivery loop
CursorTimestamp(records, ordered, attempted) == records[1].start_time

\* the rows sync_new_records tries to append
RecordRows(recs) ==
    [i \in 1..Len(recs) |-> [table |-> "Cleaning_Records", row |-> recs[i]]]

\* the records a device comes to hold: the second one cleans once at most
RecordCap(d) == IF d = "q8" THEN MaxRecords ELSE 1

\* the device finishes a cleaning: its history holds one more record
NewRecord(d) ==
    /\ history[d] < RecordCap(d)
    /\ history' = [history EXCEPT ![d] = @ + 1]
    /\ UNCHANGED <<state, state_file, clock, last, driver, peer_state, sync_mode, sync_pos,
                   sheets_failed, sync_last>>
    /\ UNCHANGED monVars

\* sync_new_records(): a new process sets up the sheets client and loads
\* the file
RecordStart(client) ==
    /\ sync_mode = "off"
    /\ sync_mode' = "record"
    /\ sync_pos' = 1
    /\ sheets_client' = client
    /\ state' = _load(state_file)
    /\ sync_last' = NoStep
    /\ UNCHANGED <<state_file, clock, last, driver, peer_state, devices, previous_states,
                   cleaning_start_battery, mon_pos, sink, displayed, polls,
                   events, script, sheets_failed, history>>

\* the loop body when the fetch is empty or nothing fetched is new: continue
RecordDeviceNothing(fetched) ==
    /\ sync_mode = "record"
    /\ sync_pos <= Len(devices)
    /\ LET device_name == devices[sync_pos]
           last_timestamp == get_last_record_timestamp(state, device_name)
           records == IF fetched
                      THEN FetchPage(device_name, history[device_name])
                      ELSE <<>>
           new_records == FilterNewRecords(records, last_timestamp)
       IN  /\ new_records = <<>>
           /\ sync_last' = [NoStep EXCEPT
                  !.op = IF records = <<>> THEN "empty" ELSE "nothing_new",
                  !.d = device_name, !.last_timestamp = last_timestamp,
                  !.records = records, !.new_records = new_records]
    /\ sync_pos' = AfterDevice(sync_pos)
    /\ UNCHANGED <<state, state_file, clock, last, driver, peer_state, sync_mode, sheets_failed,
                   history>>
    /\ UNCHANGED monVars

\* the loop body when records are new: they are logged oldest first (the
\* fail_at-th append fails, none when fail_at is 0; after a failure the
\* records are displayed), then the last timestamp is updated and saved
RecordDeviceNew(fail_at, outcome) ==
    /\ sync_mode = "record"
    /\ sync_pos <= Len(devices)
    /\ clock < MaxClock
    /\ clock' = clock + 1
    /\ LET device_name == devices[sync_pos]
           last_timestamp == get_last_record_timestamp(state, device_name)
           records == FetchPage(device_name, history[device_name])
           new_records == FilterNewRecords(records, last_timestamp)
           ordered == reversed(new_records)
           delivery == Delivery(ordered, sheets_client, fail_at)
           appended == delivery.appended
           shown == delivery.shown
           attempted == delivery.attempted
           updated == update_last_record_timestamp(state, device_name,
                          CursorTimestamp(records, ordered, attempted))
       IN  /\ new_records # <<>>
           \* fail_at is read only when rows are attempted
           /\ fail_at <= (IF sheets_client THEN Len(ordered) ELSE 0)
           /\ sink' = sink \o RecordRows(appended)
           /\ displayed' = displayed \o shown
           /\ sync_last' = [NoStep EXCEPT
                  !.op = "records", !.d = device_name,
                  !.last_timestamp = last_timestamp, !.records = records,
                  !.new_records = new_records,
                  !.attempted = attempted,
                  !.appended = Len(appended),
                  !.outcome = outcome,
                  !.wrote = TRUE, !.raised = outcome # "ok"]
           /\ state_file' = _save(state_file, updated, outcome)
           /\ IF outcome = "ok"
              THEN /\ state' = updated
                   /\ sync_pos' = AfterDevice(sync_pos)
                   /\ UNCHANGED sync_mode
              ELSE \* the exception of _save leaves sync_new_records
                   /\ state' = EmptyTable
                   /\ sync_mode' = "off"
                   /\ sync_pos' = 1
    /\ UNCHANGED <<last, driver, peer_state, devices, sheets_client, previous_states,
                   cleaning_start_battery, mon_pos, polls, events, script,
                   sheets_failed, history>>

\* return new_records_found: the run returns and its StateManager is gone
RecordDone ==
    /\ sync_mode = "record"
    /\ sync_pos = Len(devices) + 1
    /\ sync_mode' = "off"
    /\ sync_pos' = 1
    /\ state' = EmptyTable
    /\ UNCHANGED <<state_file, clock, last, driver, peer_state, sheets_failed, sync_last, history>>
    /\ UNCHANGED monVars

RecordInit ==
    /\ state_file \in {AbsentFile, CorruptFile}
    /\ state = EmptyTable
    /\ clock = 0
    /\ last = NoOp
    /\ MonitorStart(<<"q8", "s7">>, FALSE, <<>>)
    /\ SyncUnused

RecordNext ==
    \/ \E d \in DeviceNames : NewRecord(d)
    \/ \E client \in BOOLEAN : RecordStart(client)
    \/ \E fetched \in BOOLEAN : RecordDeviceNothing(fetched)
    \/ \E fail_at \in 0..RecordLimit, outcome \in SaveOutcomes :
          RecordDeviceNew(fail_at, outcome)
    \/ RecordDone

SpecRecord == RecordInit /\ [][RecordNext]_vars

(***************************************************************************)
(* Claims about sync_new_records (checked under SpecRecord).               *)
(***************************************************************************)
\* the fetched page is ordered most recent first
NewestFirst(records) ==
    \A i \in 1..Len(records), j \in 1..Len(records) :
        i < j => records[i].start_time > records[j].start_time

\* C9: with no last-seen start timestamp stored and a non-empty page
\* fetched most recent first, exactly one record is selected, the first and
\* most recent one; no older record of the page is selected.
C9_BootstrapSelectsNewestOnly ==
    (sync_last.records # <<>> /\ sync_last.last_timestamp = None
        /\ NewestFirst(sync_last.records)) =>
        /\ Len(sync_last.new_records) = 1
        /\ sync_last.new_records[1] = sync_last.records[1]
        /\ \A r \in Range(sync_last.records) :
              r.start_time <= sync_last.new_records[1].start_time

C9_Witness ==
    /\ sync_last.op = "records"
    /\ sync_last.last_timestamp = None
    /\ Len(sync_last.records) >= 3
    /\ Len(sync_last.new_records) = 1

\* C10: with a last-seen start timestamp T stored, the selected records are
\* exactly the fetched records whose start timestamp is strictly greater
\* than T.
C10_SelectsExactlyNewerThanCursor ==
    (sync_last.records # <<>> /\ sync_last.last_timestamp # None) =>
        LET T == sync_last.last_timestamp[1]
        IN  /\ Range(sync_last.new_records) =
                  { r \in Range(sync_last.records) : r.start_time > T }
            /\ Len(sync_last.new_records) =
                  Cardinality({ i \in 1..Len(sync_last.records) :
                                  sync_last.records[i].start_time > T })

C10_Witness ==
    /\ sync_last.op = "records"
    /\ sync_last.last_timestamp # None
    /\ Len(sync_last.new_records) = 2
    /\ \E r \in Range(sync_last.records) :
          r.start_time = sync_last.last_timestamp[1]
    /\ \E r \in Range(sync_last.records) :
          r.start_time < sync_last.last_timestamp[1]

\* the rows the sink received in the last device step of the sync, in order
LastRows == SubSeq(sink, Len(sink) - sync_last.appended + 1, Len(sink))
\* the start timestamps of a sequence of records
StartTimes(recs) == [i \in 1..Len(recs) |-> recs[i].start_time]
\* the timestamp a process starting now would load for d from the file
PersistedTimestamp(d) == get_last_record_timestamp(_load(state_file), d)

\* C11: the selected records of a device reach the sink in the reverse of
\* fetch order, oldest first: the i-th row appended is the i-th selected
\* record counted from the end of the selection, and for the fetch
\* [R3, R2, R1] with stored timestamp R1.start the sink receives R2, then R3.
C11_DeliveredOldestFirst ==
    sync_last.op = "records" =>
        LET new == sync_last.new_records
            rows == LastRows
        IN  /\ \A i \in 1..Len(rows) :
                  /\ rows[i].table = "Cleaning_Records"
                  /\ rows[i].row = new[Len(new) + 1 - i]
            /\ \A i \in 1..Len(rows), j \in 1..Len(rows) :
                  i < j => rows[i].row.start_time < rows[j].row.start_time
            /\ (/\ StartTimes(sync_last.records) = <<3, 2, 1>>
                /\ sync_last.last_timestamp = Some(1)
                /\ sync_last.appended = 2) =>
                   StartTimes([i \in 1..2 |-> rows[i].row]) = <<2, 3>>

C11_Witness ==
    /\ sync_last.op = "records"
    /\ StartTimes(sync_last.records) = <<3, 2, 1>>
    /\ sync_last.last_timestamp = Some(1)
    /\ sync_last.appended = 2
    /\ Len(sink) >= 3

\* C12: when a sink append fails partway through a batch and the cursor
\* write completes, the persisted last-seen timestamp of the device is the
\* start timestamp of the newest fetched record; a cycle that loads it
\* selects nothing from the same history, and from a longer history only
\* records newer than the newest fetched one, so never the record whose
\* append failed.
C12_FailedAppendStillAdvancesCursor ==
    (/\ sync_last.op = "records"
     /\ sheets_client
     /\ ~sync_last.raised
     /\ sync_last.appended < Len(sync_last.new_records)) =>
        LET d == sync_last.d
            records == sync_last.records
            new == sync_last.new_records
            failed_record == new[Len(new) - sync_last.appended]
            stored == PersistedTimestamp(d)
            next_page == get_clean_records(d, history[d], RecordLimit)
        IN  /\ stored = Some(records[1].start_time)
            /\ \A r \in Range(records) : stored[1] >= r.start_time
            /\ FilterNewRecords(records, stored) = <<>>
            /\ \A r \in Range(FilterNewRecords(next_page, stored)) :
                  /\ r # failed_record
                  /\ r.start_time > records[1].start_time

C12_Witness ==
    /\ sync_last.op = "records"
    /\ sheets_client
    /\ ~sync_last.raised
    /\ Len(sync_last.new_records) = 3
    /\ sync_last.appended = 1
    /\ PersistedTimestamp(sync_last.d) = Some(sync_last.records[1].start_time)

LastShown ==
    LET n == Len(sync_last.new_records) - sync_last.appended
    IN  SubSeq(displayed, Len(displayed) - n + 1, Len(displayed))

RecordSoundNext ==
    \/ \E d \in DeviceNames : NewRecord(d)
    \/ \E client \in BOOLEAN : RecordStart(client)
    \/ \E fetched \in BOOLEAN : RecordDeviceNothing(fetched)
    \/ \E fail_at \in 0..RecordLimit : RecordDeviceNew(fail_at, "ok")
    \/ RecordDone

SpecRecordSound == RecordInit /\ [][RecordSoundNext]_vars

\* the page a cycle starting now would fetch for device d
PageNow(d) == FetchPage(d, history[d])

\* C34: when no write of the persistence file fails, no record is appended
\* to the sink twice, over any sequence of cycles, each in a new process;
\* and after the step of a device, a cycle over the same history selects
\* nothing for it.
C34_NoRecordAppendedTwice ==
    /\ \A i \in 1..Len(sink), j \in 1..Len(sink) :
          i # j => sink[i] # sink[j]
    /\ (sync_last.op \in {"records", "nothing_new"}
        /\ PageNow(sync_last.d) = sync_last.records) =>
          FilterNewRecords(PageNow(sync_last.d),
                           PersistedTimestamp(sync_last.d)) = <<>>

\* two cycles appended records of one device, the first its newest record
\* and the second the two records created since, and a cycle over the
\* history as it is would select nothing
C34_Witness ==
    /\ Len(sink) >= 3
    /\ \A i \in 1..Len(sink) : sink[i].row.device_name = "q8"
    /\ sync_last.op = "records"
    /\ sync_last.d = "q8"
    /\ sync_last.appended = 2
    /\ PageNow("q8") = sync_last.records
    /\ PersistedTimestamp("q8") = Some(history["q8"])

\* the timestamp a process loading file f finds for d
TimestampIn(f, d) == get_last_record_timestamp(_load(f), d)

\* C35: the last-seen start timestamp persisted for a device never
\* decreases; every completed write of it stores a timestamp strictly above
\* the one stored before; and a step that selects no record writes nothing.
C35_TimestampStrictlyIncreases ==
    [][/\ \A d \in DeviceNames :
              TimestampIn(state_file, d) # None =>
                  /\ TimestampIn(state_file', d) # None
                  /\ TimestampIn(state_file', d)[1] >=
                        TimestampIn(state_file, d)[1]
       /\ (sync_last'.op = "records" /\ sync_last'.outcome = "ok"
           /\ clock' # clock) =>
              /\ TimestampIn(state_file', sync_last'.d) # None
              /\ TimestampIn(state_file, sync_last'.d) # None =>
                    TimestampIn(state_file', sync_last'.d)[1] >
                        TimestampIn(state_file, sync_last'.d)[1]
       /\ (sync_last'.op \in {"empty", "nothing_new"}
           /\ sync_last' # sync_last) =>
              /\ state_file' = state_file
              /\ ~sync_last'.wrote]_vars

\* the start timestamps of the records of device d delivered so far, to the
\* sink or to the screen
DeliveredTimes(d) ==
    { sink[i].row.start_time :
        i \in { j \in 1..Len(sink) : sink[j].row.device_name = d } }
    \cup { displayed[i].start_time : i \in Delivered(displayed, d) }

\* record t of device d was passed over: it was not delivered and a more
\* recent record of the device was
PassedOver(d, t) ==
    /\ t \notin DeliveredTimes(d)
    /\ \E u \in DeliveredTimes(d) : u > t

\* C36: a cycle fetches and selects at most 5 records of a device, the most
\* recent ones, and moves the cursor to the newest; it selects no record
\* that was passed over before, so that a record left out because more than
\* 5 were new is selected in no later cycle.
C36_BacklogBeyondFiveIsSkipped ==
    [][(sync_last'.op = "records" /\ clock' # clock) =>
          LET d == sync_last'.d
              new == sync_last'.new_records
          IN  /\ Len(sync_last'.records) <= 5
              /\ Len(new) \in 1..5
              /\ \A i \in 1..Len(new) :
                    /\ new[i] = HistoryRecord(d, history[d] + 1 - i)
                    /\ ~PassedOver(d, new[i].start_time)
              /\ sync_last'.outcome = "ok" =>
                    TimestampIn(state_file', d) = Some(history[d])]_vars

\* six records were created after the stored timestamp: the cycle selected
\* the five most recent, the cursor is at the newest, the oldest of the six
\* was delivered nowhere and a further cycle has found nothing new
C36_Witness ==
    /\ history["q8"] = 7
    /\ sync_last.op = "nothing_new"
    /\ sync_last.d = "q8"
    /\ sync_last.last_timestamp = Some(7)
    /\ PersistedTimestamp("q8") = Some(7)
    /\ DeliveredTimes("q8") = {1, 3, 4, 5, 6, 7}

(***************************************************************************)
(* The scheduling loops: monitor_loop, schedule_sync and                   *)
(* schedule_record_sync. A process runs one of them; each runs a cycle     *)
(* inside "try", sleeps, and runs the next one.                            *)
(***************************************************************************)
Drivers == {"monitor_loop", "schedule_sync", "schedule_record_sync"}

\* where the loop of the driver is: in a cycle, in the sleep that follows a
\* cycle, or in the sleep of its "except Exception" handler
DriverPhase ==
    IF driver = "monitor_loop"
    THEN IF mon_pos = 0 THEN "fallback"
         ELSE IF mon_pos = Len(devices) + 1 THEN "sleep" ELSE "cycle"
    ELSE IF sync_mode # "off" THEN "cycle"
         ELSE IF sync_last.raised THEN "fallback" ELSE "sleep"

ResumesFromSleepOnly(d) == {"sleep"}

\* the sleeps after which the "while" loop of driver d runs another cycle:
\* the sleep at the end of "try" and the one of the "except Exception"
\* handler
ResumesFrom(d) == {"sleep", "fallback"}

CheckDeviceRaisesForgets ==
    /\ mon_pos \in 1..Len(devices)
    /\ mon_pos' = 0
    /\ previous_states' = EmptyTable
    /\ cleaning_start_battery' = EmptyTable
    /\ UNCHANGED <<devices, sheets_client, sink, displayed, polls, events,
                   script>>

\* an exception leaves _check_device before it has stored anything: the
\* rest of the cycle is skipped and the handler of monitor_loop prints it
CheckDeviceRaises ==
    /\ mon_pos \in 1..Len(devices)
    /\ mon_pos' = 0
    /\ UNCHANGED <<devices, sheets_client, previous_states,
                   cleaning_start_battery, sink, displayed, polls, events,
                   script>>

\* monitor_loop, "except Exception": after POLLING_INTERVAL_SECONDS the
\* loop tests self._running, still True, and starts a cycle
MonitorFallback ==
    /\ mon_pos = 0
    /\ "fallback" \in ResumesFrom(driver)
    /\ mon_pos' = 1
    /\ UNCHANGED <<devices, sheets_client, previous_states,
                   cleaning_start_battery, sink, displayed, polls, events,
                   script>>

\* schedule_sync: the sleep is over and "while True" calls smart_sync()
ScheduleSyncCycle(client) ==
    /\ driver = "schedule_sync"
    /\ DriverPhase \in ResumesFrom(driver)
    /\ SmartStart(client)

\* schedule_record_sync: the sleep is over and "while True" calls
\* sync_new_records()
ScheduleRecordSyncCycle(client) ==
    /\ driver = "schedule_record_sync"
    /\ DriverPhase \in ResumesFrom(driver)
    /\ RecordStart(client)

\* the polls of the monitor under its driver
DriverScript == <<"any", "any", "any">>

DriverInit ==
    /\ driver \in Drivers
    /\ peer_state = EmptyTable
    /\ state_file = AbsentFile
    /\ state = EmptyTable
    /\ clock = 0
    /\ last = NoOp
    /\ MonitorStart(<<"q8", "s7">>, driver = "monitor_loop",
                    IF driver = "monitor_loop" THEN DriverScript ELSE <<>>)
    /\ sync_mode = "off"
    /\ sync_pos = 1
    /\ sheets_failed = FALSE
    /\ sync_last = NoStep
    /\ history = [d \in {"q8", "s7"} |-> 0]

DriverNext ==
    \/ /\ driver = "monitor_loop"
       /\ CheckDeviceAbsent
       /\ UNCHANGED smVars
       /\ UNCHANGED syncVars
    \/ /\ driver = "monitor_loop"
       /\ \E label \in Labels, r \in Readings, append_ok \in BOOLEAN :
             CheckDevice(label, r, append_ok)
       /\ UNCHANGED smVars
       /\ UNCHANGED syncVars
    \/ /\ driver = "monitor_loop"
       /\ CheckDeviceRaises
       /\ UNCHANGED smVars
       /\ UNCHANGED syncVars
    \/ /\ driver = "monitor_loop"
       /\ MonitorSleep
       /\ UNCHANGED smVars
       /\ UNCHANGED syncVars
    \/ /\ driver = "monitor_loop"
       /\ MonitorFallback
       /\ UNCHANGED smVars
       /\ UNCHANGED syncVars
    \/ \E client \in BOOLEAN : ScheduleSyncCycle(client)
    \/ /\ driver = "schedule_sync"
       /\ SmartDeviceAbsent
    \/ /\ driver = "schedule_sync"
       /\ \E summary \in Summaries : SmartDeviceSkip(summary)
    \/ /\ driver = "schedule_sync"
       /\ \E summary \in Summaries, fail_at \in 0..1,
             outcome \in SaveOutcomes :
             SmartDeviceNew(summary, TRUE, TRUE, fail_at, outcome)
    \/ /\ driver = "schedule_sync"
       /\ SmartDone
    \/ /\ driver = "schedule_record_sync"
       /\ \E d \in DeviceNames : NewRecord(d)
    \/ \E client \in BOOLEAN : ScheduleRecordSyncCycle(client)
    \/ /\ driver = "schedule_record_sync"
       /\ \E fetched \in BOOLEAN : RecordDeviceNothing(fetched)
    \/ /\ driver = "schedule_record_sync"
       /\ \E fail_at \in 0..1, outcome \in SaveOutcomes :
             RecordDeviceNew(fail_at, outcome)
    \/ /\ driver = "schedule_record_sync"
       /\ RecordDone

\* asyncio.sleep returns after its delay and the event loop, which runs
\* the driver as its only task, resumes it
DriverFairness ==
    /\ WF_vars(/\ driver = "monitor_loop"
               /\ MonitorFallback
               /\ UNCHANGED smVars
               /\ UNCHANGED syncVars)
    /\ WF_vars(\E client \in BOOLEAN : ScheduleSyncCycle(client))
    /\ WF_vars(\E client \in BOOLEAN : ScheduleRecordSyncCycle(client))

SpecDriver == DriverInit /\ [][DriverNext]_vars /\ DriverFairness

(***************************************************************************)
(* Claims about the scheduling loops (checked under SpecDriver).           *)
(***************************************************************************)
\* C23: an exception raised in a cycle of monitor_loop, schedule_sync or
\* schedule_record_sync does not end the driver: it waits in its handler
\* and, the sleep being over, another cycle starts.
C23_DriverSurvivesException ==
    (DriverPhase = "fallback") ~> (DriverPhase = "cycle")

\* a cycle of schedule_sync runs after the write of an earlier cycle raised
\* and left the file torn
C23_Witness ==
    /\ driver = "schedule_sync"
    /\ sync_mode = "smart"
    /\ sync_pos = 2
    /\ state_file = CorruptFile
    /\ sync_last.op = "skip"

\* the entry of device d in a per-device table, None when it has none
Entry(tbl, d) == IF d \in DOMAIN tbl THEN Some(tbl[d]) ELSE None

\* the rows of device d in the sink come before position i
RowsBefore(d, i) ==
    \A j \in 1..Len(sink) : sink[j].row.device_name = d => j < i

C39_RaisingCheckSkipsRestOfCycle ==
    [][/\ (driver = "monitor_loop" /\ mon_pos # 0 /\ mon_pos' = 0) =>
              /\ mon_pos \in 1..Len(devices)
              /\ previous_states' = previous_states
              /\ cleaning_start_battery' = cleaning_start_battery
              /\ polls' = polls
              /\ events' = events
              /\ sink' = sink
       /\ (driver = "monitor_loop" /\ mon_pos = 0) =>
              /\ mon_pos' = 1
              /\ previous_states' = previous_states
              /\ cleaning_start_battery' = cleaning_start_battery
              /\ polls' = polls
              /\ events' = events
              /\ sink' = sink]_vars

\* the check of the first device raised in a cycle that follows one in which
\* both devices were polled, the first of them active: their snapshots and
\* the start battery are still stored and the second device has not been
\* polled again
C39_Witness ==
    /\ driver = "monitor_loop"
    /\ mon_pos = 0
    /\ DOMAIN previous_states = DeviceNames
    /\ devices[1] \in DOMAIN cleaning_start_battery
    /\ \A d \in DeviceNames : Len(polls[d]) = 1

(***************************************************************************)
(* The monitor over process restarts: a new process builds a new           *)
(* CleaningMonitor; the spreadsheet and the device live on.                *)
(***************************************************************************)
MonitorRestartRestores ==
    /\ mon_pos' = 1
    /\ UNCHANGED <<devices, sheets_client, previous_states,
                   cleaning_start_battery, sink, displayed, polls, events,
                   script>>

\* the process is stopped and started again: CleaningMonitor.__init__ sets
\* previous_states and cleaning_start_battery to {} and monitor_loop begins
\* with the first device
MonitorRestart ==
    /\ previous_states' = EmptyTable
    /\ cleaning_start_battery' = EmptyTable
    /\ mon_pos' = 1
    /\ UNCHANGED <<devices, sheets_client, sink, displayed, polls, events,
                   script>>

\* the polls of the monitor over its restarts
RestartScript == <<"any", "any", "any">>

RestartInit ==
    /\ \E client \in BOOLEAN :
          MonitorStart(<<"q8", "s7">>, client, RestartScript)
    /\ state = EmptyTable
    /\ state_file = AbsentFile
    /\ clock = 0
    /\ last = NoOp
    /\ SyncUnused

\* last.op is "restart" during the first cycle of a restarted process
RestartNext ==
    \/ /\ CheckDeviceAbsent
       /\ UNCHANGED smVars
       /\ UNCHANGED syncVars
    \/ /\ \E label \in Labels, r \in Readings, append_ok \in BOOLEAN :
             CheckDevice(label, r, append_ok)
       /\ UNCHANGED smVars
       /\ UNCHANGED syncVars
    \/ /\ MonitorSleep
       /\ last' = NoOp
       /\ UNCHANGED <<state, state_file, clock>>
       /\ UNCHANGED syncVars
    \/ /\ MonitorRestart
       /\ last' = [NoOp EXCEPT !.op = "restart"]
       /\ UNCHANGED <<state, state_file, clock>>
       /\ UNCHANGED syncVars

SpecRestart == RestartInit /\ [][RestartNext]_vars

\* C40: a restarted monitor has no previous snapshot and no start battery
\* for any device, and a poll of its first cycle emits no event and appends
\* or displays nothing, also when the device was active at the last poll
\* before the restart and is idle now.
C40_RestartForgetsTheSession ==
    [][/\ last'.op = "restart" =>
              \/ /\ last.op = "restart"
                 /\ mon_pos' # 1
              \/ /\ previous_states' = EmptyTable
                 /\ cleaning_start_battery' = EmptyTable
                 /\ mon_pos' = 1
       /\ (last.op = "restart" /\ polls' # polls) =>
              /\ devices[mon_pos] \notin DOMAIN previous_states
              /\ events' = events
              /\ sink' = sink
              /\ displayed' = displayed]_vars

\* the device was active at its last poll before the restart and idle at
\* its first poll after it, and no event was emitted
C40_Witness ==
    /\ last.op = "restart"
    /\ mon_pos = 2
    /\ Len(polls[devices[1]]) = 2
    /\ Classify(polls[devices[1]][1]) = "active"
    /\ Classify(polls[devices[1]][2]) = "idle"
    /\ events = <<>>
    /\ sink = <<>>
    /\ displayed = <<>>

(***************************************************************************)
(* Two processes on one persistence file: each has a StateManager of its   *)
(* own, loaded from the file when the process starts.                      *)
(***************************************************************************)
Processes == {"first", "second"}

\* the table of process p
TableOf(p) == IF p = "first" THEN state ELSE peer_state

\* update_device_state(d, n, a, t) in process p: replace the entry in the
\* table of the process, then save that table
SharedUpdate(p, d, n, a, t, outcome) ==
    /\ clock < MaxClock
    /\ clock' = clock + 1
    /\ LET updated == update_device_state(TableOf(p), d, n, a, t, clock')
       IN  /\ state' = IF p = "first" THEN updated ELSE state
           /\ peer_state' = IF p = "second" THEN updated ELSE peer_state
           /\ state_file' = _save(state_file, updated, outcome)
    /\ last' = [NoOp EXCEPT !.op = "update", !.d = d, !.n = n, !.a = a,
                            !.t = t, !.outcome = outcome]
    /\ UNCHANGED monVars
    /\ UNCHANGED <<driver, sync_mode, sync_pos, sheets_failed, sync_last,
                   history>>

\* process p is started again: StateManager() loads the file
SharedRestart(p) ==
    /\ state' = IF p = "first" THEN _load(state_file) ELSE state
    /\ peer_state' = IF p = "second" THEN _load(state_file) ELSE peer_state
    /\ last' = [NoOp EXCEPT !.op = "restart"]
    /\ UNCHANGED <<state_file, clock>>
    /\ UNCHANGED monVars
    /\ UNCHANGED <<driver, sync_mode, sync_pos, sheets_failed, sync_last,
                   history>>

\* both processes have loaded the file
SharedInit ==
    /\ state_file \in InitFiles
    /\ state = _load(state_file)
    /\ peer_state = _load(state_file)
    /\ clock = 0
    /\ last = NoOp
    /\ MonitorUnused
    /\ driver = "none"
    /\ sync_mode = "off"
    /\ sync_pos = 1
    /\ sheets_failed = FALSE
    /\ sync_last = NoStep
    /\ history = [d \in {"q8", "s7"} |-> 0]

SharedNext ==
    \/ \E p \in Processes, d \in DeviceNames, n \in Counts, a \in Areas,
          t \in Times, outcome \in SaveOutcomes :
          SharedUpdate(p, d, n, a, t, outcome)
    \/ \E p \in Processes : SharedRestart(p)

SpecShared == SharedInit /\ [][SharedNext]_vars

\* C31: the last writer wins: after a commit of one process whose write
\* completes, the file holds the table of that process and nothing else, so
\* that an entry the other process had saved, and that the writer had not
\* loaded, is no longer in the file.
C31_LastWriterWins ==
    [][(clock' # clock /\ last'.outcome = "ok") =>
          /\ \/ state' # state /\ state_file' = WrittenFile(state')
             \/ peer_state' # peer_state
                /\ state_file' = WrittenFile(peer_state')
          /\ \A p \in Processes :
                TableOf(p)' # TableOf(p) =>
                    \A d \in DeviceNames \ {last'.d} :
                        Entry(_load(state_file'), d) = Entry(TableOf(p), d)]_vars

\* both processes loaded the absent file, the first committed q8 and then
\* the second committed s7: the file holds the entry of s7 only and the
\* commit of q8 is lost
C31_Witness ==
    /\ last.op = "update"
    /\ last.d = "s7"
    /\ last.outcome = "ok"
    /\ clock = 2
    /\ DOMAIN state = {"q8"}
    /\ DOMAIN peer_state = {"s7"}
    /\ state["q8"].last_updated = 1
    /\ state_file = WrittenFile(peer_state)
    /\ DOMAIN _load(state_file) = {"s7"}

====
